---- MODULE Spec2Model ----
(***************************************************************************)
(* Read-path reconciliation of zebra-state's transparent address indexes:  *)
(* the finalized UTXO read racing with the block-commit writer, and the    *)
(* three merges of finalized and non-finalized partial results.            *)
(***************************************************************************)
EXTENDS Integers, Sequences, FiniteSets, TLC

(***************************************************************************)
(* Bounds of the model.                                                    *)
(***************************************************************************)
\* Heights 0..MaxHeight are committed by the block write task.
MaxHeight == 4

\* Amounts are scaled down: the model's MAX_MONEY.
MaxMoney == 30

\* The retry bound of the finalized state queries.
FINALIZED_STATE_QUERY_RETRIES == 3

\* The transparent addresses known to the model.
Addresses == {"t1", "t2"}

(***************************************************************************)
(* Option<T>                                                               *)
(***************************************************************************)
None == [some |-> FALSE]
Some(x) == [some |-> TRUE, value |-> x]

\* start..=end
RangeInclusive(start, end) == [start |-> start, end |-> end]

(***************************************************************************)
(* BTreeMap<K, V> as a function on its finite key set.                     *)
(***************************************************************************)
EmptyMap == [k \in {} |-> k]

\* BTreeMap::extend: the entries of `later` replace those of `earlier`.
Extend(earlier, later) ==
    [k \in (DOMAIN earlier) \cup (DOMAIN later) |->
        IF k \in DOMAIN later THEN later[k] ELSE earlier[k]]

(***************************************************************************)
(* The finalized address index.  OutputLocation is                         *)
(* <<height, transaction index, output index>>.  Block `h` pays one output *)
(* to every address, except the genesis block, whose coinbase is in no     *)
(* address index.                                                          *)
(***************************************************************************)
OutputIndexOf(address) == IF address = "t1" THEN 0 ELSE 1

BlockOutputLocation(height, address) == <<height, 0, OutputIndexOf(address)>>

BlockOutput(height, address) == [address |-> address, value |-> height]

\* The address index entries the block at `height` adds for `address`.
BlockAddressUtxos(height, address) ==
    IF height = 0
    THEN EmptyMap
    ELSE [loc \in {BlockOutputLocation(height, address)} |-> BlockOutput(height, address)]

\* The address index of `address` once every block up to `height` is persisted.
AddressUtxosAsOf(address, height) ==
    [loc \in {BlockOutputLocation(h, address) : h \in 1..height} |->
        BlockOutput(loc[1], address)]

\* The transaction that pays the outputs of the block at `height`.
BlockTransactionLocation(height) == <<height, 0>>

BlockTransactionHash(height) == [block |-> height]

\* The transaction ID index entries the block at `height` adds for an address.
BlockAddressTxIds(height) ==
    IF height = 0
    THEN EmptyMap
    ELSE [loc \in {BlockTransactionLocation(height)} |-> BlockTransactionHash(height)]

\* What the block at `height` adds to the balance of `address`.
BlockAddressBalance(height, address) ==
    IF height = 0 THEN 0 ELSE BlockOutput(height, address).value

\* The entries of `utxos` that pay `address`.
UtxosOfAddress(utxos, address) ==
    [loc \in {l \in DOMAIN utxos : utxos[l].address = address} |-> utxos[loc]]

VARIABLES
    finalized_tip,        \* ZebraDb: the finalized tip height, Option<Height>
    utxos_by_address,     \* ZebraDb: address -> BTreeMap<OutputLocation, Output>
    committing,           \* writer: the height being persisted, Option<Height>
    persisted,            \* writer: addresses whose index update is on disk
    tx_ids_by_address,    \* ZebraDb: address -> BTreeMap<TransactionLocation, Hash>
    balance_by_address,   \* ZebraDb: address -> balance
    pc,                   \* reader: position in the query
    addresses,            \* reader: the queried address set
    attempt,              \* reader: number of the current attempt, from 1
    start_finalized_tip,  \* reader: local of finalized_address_utxos
    end_finalized_tip,    \* reader: local of finalized_address_utxos
    finalized_utxos,      \* reader: local of finalized_address_utxos
    unread,               \* reader: addresses the lookup has still to read
    returned,             \* reader: return value of finalized_address_utxos
    outcome,              \* reader: what the query handed to its caller
    history,              \* per attempt: the observations and the lookup result
    call,                 \* merge: the function called and its arguments
    result,               \* merge: the value the call returned
    query_kind,           \* query: "utxos" or "balance", "none" before it starts
    chain,                \* query: the cloned non-finalized chain, Option<Chain>
    merged_utxos,         \* query: the result of apply_utxo_changes
    partial_tx_ids,       \* query: local of the finalized transaction ID read
    partial_balance       \* query: local of the finalized balance read

vars == <<finalized_tip, utxos_by_address, committing, persisted, pc, addresses,
          attempt, start_finalized_tip, end_finalized_tip, finalized_utxos,
          unread, returned, outcome, history, call, result,
          tx_ids_by_address, balance_by_address, query_kind, chain, merged_utxos,
          partial_tx_ids, partial_balance>>

merge_vars == <<call, result>>

query_vars == <<query_kind, chain, merged_utxos, partial_tx_ids, partial_balance>>

writer_vars == <<finalized_tip, utxos_by_address, committing, persisted,
                 tx_ids_by_address, balance_by_address>>

reader_vars == <<pc, addresses, attempt, start_finalized_tip, end_finalized_tip,
                 finalized_utxos, unread, returned, outcome, history>>

NoReturn == [kind |-> "none"]

NoCall == [fn |-> "none"]

Init ==
    /\ call = NoCall
    /\ result = NoReturn
    /\ finalized_tip = None
    /\ utxos_by_address = [a \in Addresses |-> EmptyMap]
    /\ tx_ids_by_address = [a \in Addresses |-> EmptyMap]
    /\ balance_by_address = [a \in Addresses |-> 0]
    /\ query_kind = "none"
    /\ chain = None
    /\ merged_utxos = EmptyMap
    /\ partial_tx_ids = EmptyMap
    /\ partial_balance = 0
    /\ committing = None
    /\ persisted = {}
    /\ pc = "idle"
    /\ addresses = {}
    /\ attempt = 0
    /\ start_finalized_tip = None
    /\ end_finalized_tip = None
    /\ finalized_utxos = EmptyMap
    /\ unread = {}
    /\ returned = NoReturn
    /\ outcome = NoReturn
    /\ history = <<>>

(***************************************************************************)
(* The block write task: the only mutator of the finalized state.  It      *)
(* persists the address index updates of a block, then advances the tip.   *)
(***************************************************************************)
NextHeight == IF finalized_tip.some THEN finalized_tip.value + 1 ELSE 0

WriterBegin ==
    /\ ~committing.some
    /\ NextHeight <= MaxHeight
    /\ committing' = Some(NextHeight)
    /\ persisted' = {}
    /\ UNCHANGED <<finalized_tip, utxos_by_address, tx_ids_by_address,
                   balance_by_address>>
    /\ UNCHANGED reader_vars
    /\ UNCHANGED merge_vars
    /\ UNCHANGED query_vars

WriterPersist ==
    /\ committing.some
    /\ \E a \in Addresses \ persisted :
        /\ utxos_by_address' =
              [utxos_by_address EXCEPT
                  ![a] = Extend(@, BlockAddressUtxos(committing.value, a))]
        /\ tx_ids_by_address' =
              [tx_ids_by_address EXCEPT
                  ![a] = Extend(@, BlockAddressTxIds(committing.value))]
        /\ balance_by_address' =
              [balance_by_address EXCEPT
                  ![a] = @ + BlockAddressBalance(committing.value, a)]
        /\ persisted' = persisted \cup {a}
    /\ UNCHANGED <<finalized_tip, committing>>
    /\ UNCHANGED reader_vars
    /\ UNCHANGED merge_vars
    /\ UNCHANGED query_vars

WriterAdvanceTip ==
    /\ committing.some
    /\ persisted = Addresses
    /\ finalized_tip' = Some(committing.value)
    /\ committing' = None
    /\ persisted' = {}
    /\ UNCHANGED <<utxos_by_address, tx_ids_by_address, balance_by_address>>
    /\ UNCHANGED reader_vars
    /\ UNCHANGED merge_vars
    /\ UNCHANGED query_vars

(***************************************************************************)
(* finalized_address_utxos                                                 *)
(***************************************************************************)
\* The caller starts a query for a non-empty address set.
StartQuery ==
    /\ pc = "idle"
    /\ \E query \in (SUBSET Addresses) \ {{}} : addresses' = query
    /\ attempt' = 1
    /\ history' = <<>>
    /\ outcome' = NoReturn
    /\ returned' = NoReturn
    /\ pc' = "start"
    /\ UNCHANGED <<start_finalized_tip, end_finalized_tip, finalized_utxos, unread>>
    /\ UNCHANGED writer_vars
    /\ UNCHANGED merge_vars
    /\ UNCHANGED query_vars

\* let start_finalized_tip = db.finalized_tip_height();
ReadStartTip ==
    /\ pc = "start"
    /\ start_finalized_tip' = finalized_tip
    /\ finalized_utxos' = EmptyMap
    /\ unread' = addresses
    /\ pc' = "lookup"
    /\ UNCHANGED <<addresses, attempt, end_finalized_tip, returned, outcome, history>>
    /\ UNCHANGED writer_vars
    /\ UNCHANGED merge_vars
    /\ UNCHANGED query_vars

\* db.partial_finalized_address_utxos(addresses): one index read per address.
\* The lookup mutated to take the entries it reads out of the index.
LookupAddressDraining ==
    /\ pc = "lookup"
    /\ \E a \in unread :
        /\ finalized_utxos' = Extend(finalized_utxos, utxos_by_address[a])
        /\ utxos_by_address' = [utxos_by_address EXCEPT ![a] = EmptyMap]
        /\ unread' = unread \ {a}
    /\ UNCHANGED <<pc, addresses, attempt, start_finalized_tip, end_finalized_tip,
                   returned, outcome, history>>
    /\ UNCHANGED <<finalized_tip, committing, persisted, tx_ids_by_address,
                   balance_by_address>>
    /\ UNCHANGED merge_vars
    /\ UNCHANGED query_vars

LookupAddress ==
    /\ pc = "lookup"
    /\ \E a \in unread :
        /\ finalized_utxos' = Extend(finalized_utxos, utxos_by_address[a])
        /\ unread' = unread \ {a}
    /\ UNCHANGED <<pc, addresses, attempt, start_finalized_tip, end_finalized_tip,
                   returned, outcome, history>>
    /\ UNCHANGED writer_vars
    /\ UNCHANGED merge_vars
    /\ UNCHANGED query_vars

\* The range mutated to span the first observation only.
FinalizedTipRangeStartOnly(start, end) ==
    IF start.some /\ end.some
    THEN Some(RangeInclusive(start.value, start.value))
    ELSE None

\* The range built with its ends swapped.
FinalizedTipRangeSwapped(start, end) ==
    IF start.some /\ end.some
    THEN Some(RangeInclusive(end.value, start.value))
    ELSE None

\* if let (Some(start), Some(end)) = (start, end) { Some(start..=end) } else { None }
FinalizedTipRange(start, end) ==
    IF start.some /\ end.some
    THEN Some(RangeInclusive(start.value, end.value))
    ELSE None

\* The return value mutated to drop the lookup result.
FinalizedAddressUtxosReturnDefault(utxos, start, end) ==
    [kind |-> "return", utxos |-> EmptyMap, range |-> FinalizedTipRange(start, end)]

\* (finalized_utxos, finalized_tip_range)
FinalizedAddressUtxosReturn(utxos, start, end) ==
    [kind |-> "return", utxos |-> utxos, range |-> FinalizedTipRange(start, end)]

\* let end_finalized_tip = db.finalized_tip_height(); ... return
ReadEndTip ==
    /\ pc = "lookup"
    /\ unread = {}
    /\ end_finalized_tip' = finalized_tip
    /\ returned' = FinalizedAddressUtxosReturn(finalized_utxos, start_finalized_tip,
                                               finalized_tip)
    /\ history' = Append(history, [start |-> start_finalized_tip,
                                   end |-> finalized_tip,
                                   utxos |-> finalized_utxos])
    /\ pc' = "returned"
    /\ UNCHANGED <<addresses, attempt, start_finalized_tip, finalized_utxos, unread,
                   outcome>>
    /\ UNCHANGED writer_vars
    /\ UNCHANGED merge_vars
    /\ UNCHANGED query_vars

(***************************************************************************)
(* The retry protocol around finalized_address_utxos.  It sees the         *)
(* function's return value only.                                           *)
(***************************************************************************)
\* The returned range certifies the lookup: no finalized data yet, or one height.
RangeIsConsistent(range) ==
    IF range.some THEN range.value.start = range.value.end ELSE TRUE

QuerySucceeds ==
    /\ pc = "returned"
    /\ RangeIsConsistent(returned.range)
    /\ outcome' = [kind |-> "ok", utxos |-> returned.utxos, range |-> returned.range]
    /\ pc' = "done"
    /\ UNCHANGED <<addresses, attempt, start_finalized_tip, end_finalized_tip,
                   finalized_utxos, unread, returned, history>>
    /\ UNCHANGED writer_vars
    /\ UNCHANGED merge_vars
    /\ UNCHANGED query_vars

QueryRetries ==
    /\ pc = "returned"
    /\ ~RangeIsConsistent(returned.range)
    /\ attempt < FINALIZED_STATE_QUERY_RETRIES
    /\ attempt' = attempt + 1
    /\ pc' = "start"
    /\ UNCHANGED <<addresses, start_finalized_tip, end_finalized_tip,
                   finalized_utxos, unread, returned, outcome, history>>
    /\ UNCHANGED writer_vars
    /\ UNCHANGED merge_vars
    /\ UNCHANGED query_vars

QueryRetriesExhausted ==
    /\ pc = "returned"
    /\ ~RangeIsConsistent(returned.range)
    /\ attempt >= FINALIZED_STATE_QUERY_RETRIES
    /\ outcome' = [kind |-> "retry_exhausted"]
    /\ pc' = "error"
    /\ UNCHANGED <<addresses, attempt, start_finalized_tip, end_finalized_tip,
                   finalized_utxos, unread, returned, history>>
    /\ UNCHANGED writer_vars
    /\ UNCHANGED merge_vars
    /\ UNCHANGED query_vars

\* The caller takes the outcome; another query may follow.
QueryEnds ==
    /\ pc \in {"done", "error"}
    /\ pc' = "idle"
    /\ UNCHANGED <<addresses, attempt, start_finalized_tip, end_finalized_tip,
                   finalized_utxos, unread, returned, outcome, history>>
    /\ UNCHANGED writer_vars
    /\ UNCHANGED merge_vars
    /\ UNCHANGED query_vars

Next ==
    \/ WriterBegin
    \/ WriterPersist
    \/ WriterAdvanceTip
    \/ StartQuery
    \/ ReadStartTip
    \/ LookupAddress
    \/ ReadEndTip
    \/ QuerySucceeds
    \/ QueryRetries
    \/ QueryRetriesExhausted
    \/ QueryEnds

Spec == Init /\ [][Next]_vars

(***************************************************************************)
(* Ordered maps as the merges iterate and rebuild them.                    *)
(***************************************************************************)
\* The derived ordering of TransactionLocation and OutputLocation:
\* lexicographic on the fields, in declaration order.
LocationLess(a, b) ==
    \E i \in 1..Len(a) :
        /\ a[i] < b[i]
        /\ \A j \in 1..(i - 1) : a[j] = b[j]

MinLocation(locations) ==
    CHOOSE k \in locations : \A other \in locations \ {k} : LocationLess(k, other)

Remove(map, key) == [k \in (DOMAIN map) \ {key} |-> map[k]]

\* BTreeMap::insert: a later value replaces the one stored under the key.
Insert(map, key, value) ==
    [k \in (DOMAIN map) \cup {key} |-> IF k = key THEN value ELSE map[k]]

\* BTreeMap::into_iter: the entries as <<key, value>>, in ascending key order.
RECURSIVE IntoIter(_)
IntoIter(map) ==
    IF DOMAIN map = {}
    THEN <<>>
    ELSE LET k == MinLocation(DOMAIN map)
         IN  <<<<k, map[k]>>>> \o IntoIter(Remove(map, k))

\* Iterator::collect into a BTreeMap: the entries are inserted in order.
RECURSIVE Collect(_)
Collect(entries) ==
    IF entries = <<>>
    THEN EmptyMap
    ELSE LET last == entries[Len(entries)]
         IN  Insert(Collect(SubSeq(entries, 1, Len(entries) - 1)), last[1], last[2])

(***************************************************************************)
(* apply_utxo_changes                                                      *)
(***************************************************************************)
\* The spent outputs removed from the finalized UTXOs only.
ApplyUtxoChangesSpentBeforeCreated(finalized, created_chain_utxos, spent_chain_utxos) ==
    Collect(SelectSeq(IntoIter(finalized),
                      LAMBDA entry : entry[1] \notin spent_chain_utxos)
            \o IntoIter(created_chain_utxos))

\* The finalized UTXOs chained after the created ones.
ApplyUtxoChangesFinalizedLast(finalized, created_chain_utxos, spent_chain_utxos) ==
    Collect(SelectSeq(IntoIter(created_chain_utxos) \o IntoIter(finalized),
                      LAMBDA entry : entry[1] \notin spent_chain_utxos))

\* An output in both the finalized and the created UTXOs left out.
ApplyUtxoChangesOverlapDropped(finalized, created_chain_utxos, spent_chain_utxos) ==
    Collect(SelectSeq(IntoIter(finalized) \o IntoIter(created_chain_utxos),
                      LAMBDA entry :
                          /\ entry[1] \notin spent_chain_utxos
                          /\ entry[1] \notin
                                (DOMAIN finalized) \cap (DOMAIN created_chain_utxos)))

\* finalized_utxos.into_iter().chain(created_chain_utxos)
\*     .filter(|(utxo_location, _output)| !spent_chain_utxos.contains(utxo_location))
\*     .collect()
ApplyUtxoChanges(finalized, created_chain_utxos, spent_chain_utxos) ==
    Collect(SelectSeq(IntoIter(finalized) \o IntoIter(created_chain_utxos),
                      LAMBDA entry : entry[1] \notin spent_chain_utxos))

(***************************************************************************)
(* apply_tx_id_changes                                                     *)
(***************************************************************************)
\* The finalized transaction IDs chained after the non-finalized ones.
ApplyTxIdChangesFinalizedLast(finalized_tx_ids, chain_tx_ids) ==
    Collect(IntoIter(chain_tx_ids) \o IntoIter(finalized_tx_ids))

\* finalized_tx_ids.into_iter().chain(chain_tx_ids).collect()
ApplyTxIdChanges(finalized_tx_ids, chain_tx_ids) ==
    Collect(IntoIter(finalized_tx_ids) \o IntoIter(chain_tx_ids))

(***************************************************************************)
(* Amount<C> and apply_balance_change                                      *)
(***************************************************************************)
Ok(value) == [ok |-> TRUE, value |-> value]

Err(error) == [ok |-> FALSE, error |-> error]

\* The valid range of each constraint.
ValidRange(constraint) ==
    IF constraint = "NonNegative" THEN 0..MaxMoney ELSE (-MaxMoney)..MaxMoney

\* Amount::constrain, Amount::try_from
Constrain(value, constraint) ==
    IF value \in ValidRange(constraint) THEN Ok(value) ELSE Err("amount_range")

\* Amount<C> + Amount<C>: the sum, constrained to C.
AmountAdd(lhs, rhs, constraint) == Constrain(lhs + rhs, constraint)

\* The sum constrained to NegativeAllowed, not to NonNegative.
ApplyBalanceChangeNegativeAllowed(finalized_balance, chain_balance_change) ==
    LET constrained == Constrain(finalized_balance, "NegativeAllowed")
    IN  IF ~constrained.ok
        THEN constrained
        ELSE LET balance == AmountAdd(constrained.value, chain_balance_change,
                                      "NegativeAllowed")
             IN  IF ~balance.ok THEN balance
                 ELSE Constrain(balance.value, "NegativeAllowed")

\* The chain balance change subtracted, not added.
ApplyBalanceChangeSubtracted(finalized_balance, chain_balance_change) ==
    LET constrained == Constrain(finalized_balance, "NegativeAllowed")
    IN  IF ~constrained.ok
        THEN constrained
        ELSE LET balance == AmountAdd(constrained.value, 0 - chain_balance_change,
                                      "NegativeAllowed")
             IN  IF ~balance.ok THEN balance
                 ELSE Constrain(balance.value, "NonNegative")

\* A sum outside the valid range saturated to the nearest valid balance.
ApplyBalanceChangeSaturating(finalized_balance, chain_balance_change) ==
    LET sum == finalized_balance + chain_balance_change
    IN  IF sum < 0 THEN Ok(0)
        ELSE IF sum > MaxMoney THEN Ok(MaxMoney)
        ELSE Ok(sum)

\* let balance = finalized_balance.constrain()? + chain_balance_change;
\* balance?.constrain()
ApplyBalanceChange(finalized_balance, chain_balance_change) ==
    LET constrained == Constrain(finalized_balance, "NegativeAllowed")
    IN  IF ~constrained.ok
        THEN constrained
        ELSE LET balance == AmountAdd(constrained.value, chain_balance_change,
                                      "NegativeAllowed")
             IN  IF ~balance.ok THEN balance
                 ELSE Constrain(balance.value, "NonNegative")

(***************************************************************************)
(* The merges, called on every input of bounded size.                      *)
(***************************************************************************)
MergeOutputLocations == {<<1, 0, 0>>, <<1, 0, 1>>, <<2, 1, 0>>}

MergeOutputs == {BlockOutput(1, "t1"), BlockOutput(2, "t2")}

MergeTransactionLocations == {<<1, 0>>, <<1, 1>>, <<2, 0>>}

MergeTransactionHashes == {"h1", "h2"}

\* Every map from a subset of `keys` to `values`.
Maps(keys, values) == UNION {[subset -> values] : subset \in SUBSET keys}

UtxoCalls ==
    [fn : {"apply_utxo_changes"},
     finalized_utxos : Maps(MergeOutputLocations, MergeOutputs),
     created_chain_utxos : Maps(MergeOutputLocations, MergeOutputs),
     spent_chain_utxos : SUBSET MergeOutputLocations]

TxIdCalls ==
    [fn : {"apply_tx_id_changes"},
     finalized_tx_ids : Maps(MergeTransactionLocations, MergeTransactionHashes),
     chain_tx_ids : Maps(MergeTransactionLocations, MergeTransactionHashes)]

BalanceCalls ==
    [fn : {"apply_balance_change"},
     finalized_balance : ValidRange("NonNegative"),
     chain_balance_change : ValidRange("NegativeAllowed")]

MergeInit ==
    /\ call \in UtxoCalls \cup TxIdCalls \cup BalanceCalls
    /\ result = NoReturn
    /\ finalized_tip = None
    /\ utxos_by_address = [a \in Addresses |-> EmptyMap]
    /\ tx_ids_by_address = [a \in Addresses |-> EmptyMap]
    /\ balance_by_address = [a \in Addresses |-> 0]
    /\ query_kind = "none"
    /\ chain = None
    /\ merged_utxos = EmptyMap
    /\ partial_tx_ids = EmptyMap
    /\ partial_balance = 0
    /\ committing = None
    /\ persisted = {}
    /\ pc = "idle"
    /\ addresses = {}
    /\ attempt = 0
    /\ start_finalized_tip = None
    /\ end_finalized_tip = None
    /\ finalized_utxos = EmptyMap
    /\ unread = {}
    /\ returned = NoReturn
    /\ outcome = NoReturn
    /\ history = <<>>

CallApplyUtxoChanges ==
    /\ call.fn = "apply_utxo_changes"
    /\ result = NoReturn
    /\ result' = [kind |-> "return",
                  value |-> ApplyUtxoChanges(call.finalized_utxos,
                                             call.created_chain_utxos,
                                             call.spent_chain_utxos)]
    /\ UNCHANGED <<call, writer_vars, reader_vars, query_vars>>

CallApplyTxIdChanges ==
    /\ call.fn = "apply_tx_id_changes"
    /\ result = NoReturn
    /\ result' = [kind |-> "return",
                  value |-> ApplyTxIdChanges(call.finalized_tx_ids, call.chain_tx_ids)]
    /\ UNCHANGED <<call, writer_vars, reader_vars, query_vars>>

CallApplyBalanceChange ==
    /\ call.fn = "apply_balance_change"
    /\ result = NoReturn
    /\ result' = [kind |-> "return",
                  value |-> ApplyBalanceChange(call.finalized_balance,
                                               call.chain_balance_change)]
    /\ UNCHANGED <<call, writer_vars, reader_vars, query_vars>>

MergeNext ==
    \/ CallApplyUtxoChanges
    \/ CallApplyTxIdChanges
    \/ CallApplyBalanceChange

MergeSpec == MergeInit /\ [][MergeNext]_vars

(***************************************************************************)
(* zebra_chain::primitives::Address                                        *)
(***************************************************************************)
\* Unified addresses hold at most MaxReceivers receivers.
MaxReceivers == 3

\* NetworkKind::from_zcash_address
FromZcashAddress(network) ==
    CASE network = "Main" -> "Mainnet"
      [] network = "Test" -> "Testnet"
      [] network = "Regtest" -> "Regtest"

\* orchard::Address::from_raw_address_bytes, sapling::PaymentAddress::from_bytes:
\* the decoded address, or None for bytes that are no valid encoding.
FromBytes(data) == IF data = "valid" THEN Some(data) ELSE None

\* Address::try_from_sapling
TryFromSapling(network, data) ==
    LET address == FromBytes(data)
    IN  IF address.some
        THEN Ok([variant |-> "Sapling",
                 network |-> FromZcashAddress(network),
                 address |-> address.value])
        ELSE Err("not a valid sapling address")

\* The receivers loop that skips an Unknown receiver.
RECURSIVE UnifiedReceiversUnknownSkipped(_, _, _, _, _)
UnifiedReceiversUnknownSkipped(network, unified_address, i, orchard, sapling) ==
    IF i > Len(unified_address)
    THEN Ok([variant |-> "Unified",
             network |-> network,
             unified_address |-> unified_address,
             orchard |-> orchard,
             sapling |-> sapling])
    ELSE LET receiver == unified_address[i]
         IN  CASE receiver.kind = "Orchard" ->
                    IF ~FromBytes(receiver.data).some
                    THEN Err("Unified Address contains an invalid Orchard receiver.")
                    ELSE UnifiedReceiversUnknownSkipped(network, unified_address, i + 1,
                                                        FromBytes(receiver.data), sapling)
               [] receiver.kind = "Sapling" ->
                    IF ~FromBytes(receiver.data).some
                    THEN Err("Unified Address contains an invalid Sapling receiver")
                    ELSE UnifiedReceiversUnknownSkipped(network, unified_address, i + 1,
                                                        orchard, FromBytes(receiver.data))
               [] OTHER ->
                    UnifiedReceiversUnknownSkipped(network, unified_address, i + 1,
                                                   orchard, sapling)

\* for receiver in unified_address.items().into_iter() { match receiver { .. } }
\* Ok(Self::Unified { network, unified_address, orchard, sapling })
RECURSIVE UnifiedReceivers(_, _, _, _, _)
UnifiedReceivers(network, unified_address, i, orchard, sapling) ==
    IF i > Len(unified_address)
    THEN Ok([variant |-> "Unified",
             network |-> network,
             unified_address |-> unified_address,
             orchard |-> orchard,
             sapling |-> sapling])
    ELSE LET receiver == unified_address[i]
         IN  CASE receiver.kind = "Orchard" ->
                    IF ~FromBytes(receiver.data).some
                    THEN Err("Unified Address contains an invalid Orchard receiver.")
                    ELSE UnifiedReceivers(network, unified_address, i + 1,
                                          FromBytes(receiver.data), sapling)
               [] receiver.kind = "Sapling" ->
                    IF ~FromBytes(receiver.data).some
                    THEN Err("Unified Address contains an invalid Sapling receiver")
                    ELSE UnifiedReceivers(network, unified_address, i + 1,
                                          orchard, FromBytes(receiver.data))
               [] receiver.kind = "Unknown" ->
                    Err("Unsupported receiver in a Unified Address.")
               [] OTHER ->
                    UnifiedReceivers(network, unified_address, i + 1, orchard, sapling)

\* Address::try_from_unified
TryFromUnified(network, unified_address) ==
    UnifiedReceivers(FromZcashAddress(network), unified_address, 1, None, None)

\* The Unified variant left to the fallback arm.
IsScriptHashSaplingOnly(address) ==
    IF address.variant \in {"Sapling"} THEN FALSE ELSE TRUE

\* match &self { Self::Sapling { .. } | Self::Unified { .. } => false, _ => true }
IsScriptHash(address) ==
    IF address.variant \in {"Sapling", "Unified"} THEN FALSE ELSE TRUE

\* unified::Receiver: the kinds, with the bytes of the shielded ones.
Receivers ==
    [kind : {"Orchard", "Sapling"}, data : {"valid", "invalid"}]
        \cup [kind : {"P2pkh", "P2sh", "Unknown"}, data : {"bytes"}]

ZcashNetworks == {"Main", "Test", "Regtest"}

\* Every sequence of at most `n` elements of `set`.
SeqsUpTo(set, n) == UNION {[1..len -> set] : len \in 0..n}

AddressCalls ==
    [fn : {"try_from_unified"},
     network : ZcashNetworks,
     unified_address : SeqsUpTo(Receivers, MaxReceivers)]
        \cup [fn : {"try_from_sapling"},
              network : ZcashNetworks,
              data : {"valid", "invalid"}]

AddressInit ==
    /\ call \in AddressCalls
    /\ result = NoReturn
    /\ finalized_tip = None
    /\ utxos_by_address = [a \in Addresses |-> EmptyMap]
    /\ tx_ids_by_address = [a \in Addresses |-> EmptyMap]
    /\ balance_by_address = [a \in Addresses |-> 0]
    /\ query_kind = "none"
    /\ chain = None
    /\ merged_utxos = EmptyMap
    /\ partial_tx_ids = EmptyMap
    /\ partial_balance = 0
    /\ committing = None
    /\ persisted = {}
    /\ pc = "idle"
    /\ addresses = {}
    /\ attempt = 0
    /\ start_finalized_tip = None
    /\ end_finalized_tip = None
    /\ finalized_utxos = EmptyMap
    /\ unread = {}
    /\ returned = NoReturn
    /\ outcome = NoReturn
    /\ history = <<>>

CallTryFromUnified ==
    /\ call.fn = "try_from_unified"
    /\ result = NoReturn
    /\ result' = [kind |-> "return",
                  value |-> TryFromUnified(call.network, call.unified_address)]
    /\ UNCHANGED <<call, writer_vars, reader_vars, query_vars>>

CallTryFromSapling ==
    /\ call.fn = "try_from_sapling"
    /\ result = NoReturn
    /\ result' = [kind |-> "return", value |-> TryFromSapling(call.network, call.data)]
    /\ UNCHANGED <<call, writer_vars, reader_vars, query_vars>>

\* address.is_script_hash() on a converted address
CallIsScriptHash ==
    /\ call.fn \in {"try_from_unified", "try_from_sapling"}
    /\ result.kind = "return"
    /\ result.value.ok
    /\ result' = [kind |-> "is_script_hash",
                  address |-> result.value.value,
                  value |-> IsScriptHash(result.value.value)]
    /\ UNCHANGED <<call, writer_vars, reader_vars, query_vars>>

AddressNext ==
    \/ CallTryFromUnified
    \/ CallTryFromSapling
    \/ CallIsScriptHash

AddressSpec == AddressInit /\ [][AddressNext]_vars

(***************************************************************************)
(* AddressUtxos                                                            *)
(***************************************************************************)
\* OutputLocation::transaction_location
TransactionLocationOf(output_location) == <<output_location[1], output_location[2]>>

\* The value built with its transaction IDs left out.
AddressUtxosNewTxIdsDropped(network, utxos, tx_ids) ==
    [utxos |-> utxos, tx_ids |-> EmptyMap, network |-> network]

\* AddressUtxos::new
AddressUtxosNew(network, utxos, tx_ids) ==
    [utxos |-> utxos, tx_ids |-> tx_ids, network |-> network]

\* The panic of a failed expect().
Panic(message) == [panicked |-> TRUE, message |-> message]

\* The items an iterator yielded up to its end.
Yielded(items) == [panicked |-> FALSE, items |-> items]

\* The item utxos() yields for one entry of the UTXO map.
UtxosItem(self, entry) ==
    <<entry[2].address, self.tx_ids[TransactionLocationOf(entry[1])], entry[1], entry[2]>>

\* The items yielded from the last entry to the first.
AddressUtxosUtxosReversed(self) ==
    LET entries == IntoIter(self.utxos)
    IN  IF \E i \in 1..Len(entries) :
              TransactionLocationOf(entries[i][1]) \notin DOMAIN self.tx_ids
        THEN Panic("address indexes are consistent")
        ELSE Yielded([i \in 1..Len(entries) |->
                         UtxosItem(self, entries[Len(entries) + 1 - i])])

\* self.utxos.iter().map(|(out_loc, output)| (address, tx id, out_loc, output)),
\* consumed to its end
AddressUtxosUtxos(self) ==
    LET entries == IntoIter(self.utxos)
    IN  IF \E i \in 1..Len(entries) :
              TransactionLocationOf(entries[i][1]) \notin DOMAIN self.tx_ids
        THEN Panic("address indexes are consistent")
        ELSE Yielded([i \in 1..Len(entries) |-> UtxosItem(self, entries[i])])

\* The UTXO maps are built by at most MaxInsertions insertions.
MaxInsertions == 3

UtxosOutputLocations == {<<1, 1, 0>>, <<1, 0, 1>>, <<2, 0, 0>>}

UtxosCalls ==
    [fn : {"AddressUtxos::utxos"},
     network : {"Mainnet"},
     insertions : SeqsUpTo(UtxosOutputLocations \X MergeOutputs, MaxInsertions),
     tx_ids : Maps({TransactionLocationOf(l) : l \in UtxosOutputLocations},
                   MergeTransactionHashes)]

UtxosInit ==
    /\ call \in UtxosCalls
    /\ result = NoReturn
    /\ finalized_tip = None
    /\ utxos_by_address = [a \in Addresses |-> EmptyMap]
    /\ tx_ids_by_address = [a \in Addresses |-> EmptyMap]
    /\ balance_by_address = [a \in Addresses |-> 0]
    /\ query_kind = "none"
    /\ chain = None
    /\ merged_utxos = EmptyMap
    /\ partial_tx_ids = EmptyMap
    /\ partial_balance = 0
    /\ committing = None
    /\ persisted = {}
    /\ pc = "idle"
    /\ addresses = {}
    /\ attempt = 0
    /\ start_finalized_tip = None
    /\ end_finalized_tip = None
    /\ finalized_utxos = EmptyMap
    /\ unread = {}
    /\ returned = NoReturn
    /\ outcome = NoReturn
    /\ history = <<>>

\* AddressUtxos::new(network, utxos, tx_ids)
CallAddressUtxosNew ==
    /\ call.fn = "AddressUtxos::utxos"
    /\ result = NoReturn
    /\ result' = [kind |-> "new",
                  value |-> AddressUtxosNew(call.network, Collect(call.insertions),
                                            call.tx_ids)]
    /\ UNCHANGED <<call, writer_vars, reader_vars, query_vars>>

\* address_utxos.utxos().collect()
CallAddressUtxosUtxos ==
    /\ call.fn = "AddressUtxos::utxos"
    /\ result.kind = "new"
    /\ result' = [kind |-> "utxos", self |-> result.value,
                  value |-> AddressUtxosUtxos(result.value)]
    /\ UNCHANGED <<call, writer_vars, reader_vars, query_vars>>

UtxosNext ==
    \/ CallAddressUtxosNew
    \/ CallAddressUtxosUtxos

UtxosSpec == UtxosInit /\ [][UtxosNext]_vars

(***************************************************************************)
(* The non-finalized chain snapshot a query is given.  Its blocks pay the  *)
(* same outputs the block write task persists when it finalizes them, so a *)
(* block can be in the snapshot and in the finalized state.                *)
(***************************************************************************)
AddressOfOutputIndex(index) == CHOOSE a \in Addresses : OutputIndexOf(a) = index

FirstAddress(queried) ==
    CHOOSE a \in queried : \A b \in queried : OutputIndexOf(a) <= OutputIndexOf(b)

\* The partial results of a chain of the blocks root..tip for `queried`.
ChainOf(root, tip, spent, balance_change, queried) ==
    Some([created |->
              [loc \in {BlockOutputLocation(h, a) : h \in root..tip, a \in queried} |->
                  BlockOutput(loc[1], AddressOfOutputIndex(loc[3]))],
          spent |-> spent,
          tx_ids |->
              [loc \in {BlockTransactionLocation(h) : h \in root..tip} |->
                  BlockTransactionHash(loc[1])],
          balance_change |-> balance_change])

\* The snapshots of a UTXO query: no chain, the blocks of heights 1 and 2
\* with an output of the first spent by the second, and the block of height
\* 2 spending an output of the block below it.
UtxoChainSnapshots(queried) ==
    {None,
     ChainOf(1, 2, {BlockOutputLocation(1, FirstAddress(queried))}, 0, queried),
     ChainOf(2, 2, {BlockOutputLocation(1, FirstAddress(queried))}, 0, queried)}

\* The snapshots of a balance query: no chain, or a chain with a balance change.
BalanceChainSnapshots ==
    {None} \cup
    {Some([created |-> EmptyMap, spent |-> {}, tx_ids |-> EmptyMap,
           balance_change |-> change]) :
        change \in {0 - MaxMoney, -1, 1, MaxMoney}}

\* chain.partial_transparent_utxo_changes(addresses), or the default
ChainCreatedUtxos == IF chain.some THEN chain.value.created ELSE EmptyMap

ChainSpentUtxos == IF chain.some THEN chain.value.spent ELSE {}

\* chain.partial_transparent_tx_ids(addresses, ..), or the default
ChainTxIds == IF chain.some THEN chain.value.tx_ids ELSE EmptyMap

\* The entries of `map` under `keys`.
Restrict(map, keys) == [k \in keys \cap (DOMAIN map) |-> map[k]]

(***************************************************************************)
(* The UTXO query: the race-safe finalized UTXO read, the UTXO merge, the  *)
(* race-safe finalized transaction ID read, the transaction ID merge, and  *)
(* the AddressUtxos built from them.                                       *)
(***************************************************************************)
finalized_read_vars == <<start_finalized_tip, end_finalized_tip, finalized_utxos,
                         unread, returned, history>>

StartUtxosQuery ==
    /\ pc = "idle"
    /\ query_kind = "none"
    /\ \E queried \in (SUBSET Addresses) \ {{}} :
        /\ addresses' = queried
        /\ chain' \in UtxoChainSnapshots(queried)
    /\ query_kind' = "utxos"
    /\ attempt' = 1
    /\ pc' = "start"
    /\ UNCHANGED <<finalized_read_vars, outcome, merged_utxos, partial_tx_ids,
                   partial_balance>>
    /\ UNCHANGED writer_vars
    /\ UNCHANGED merge_vars

\* apply_utxo_changes(finalized_utxos, created_chain_utxos, spent_chain_utxos)
MergeUtxos ==
    /\ pc = "done"
    /\ query_kind = "utxos"
    /\ merged_utxos' = ApplyUtxoChanges(outcome.utxos, ChainCreatedUtxos, ChainSpentUtxos)
    /\ finalized_utxos' = EmptyMap
    /\ outcome' = NoReturn
    /\ history' = <<>>
    /\ attempt' = 1
    /\ pc' = "tx_start"
    /\ UNCHANGED <<addresses, start_finalized_tip, end_finalized_tip, unread, returned,
                   query_kind, chain, partial_tx_ids, partial_balance>>
    /\ UNCHANGED writer_vars
    /\ UNCHANGED merge_vars

TxIdsReadStartTip ==
    /\ pc = "tx_start"
    /\ start_finalized_tip' = finalized_tip
    /\ partial_tx_ids' = EmptyMap
    /\ unread' = addresses
    /\ pc' = "tx_lookup"
    /\ UNCHANGED <<addresses, attempt, end_finalized_tip, finalized_utxos, returned,
                   outcome, history, query_kind, chain, merged_utxos, partial_balance>>
    /\ UNCHANGED writer_vars
    /\ UNCHANGED merge_vars

\* db.partial_finalized_address_tx_ids(addresses, ..): one index read per address.
TxIdsLookupAddress ==
    /\ pc = "tx_lookup"
    /\ \E a \in unread :
        /\ partial_tx_ids' = Extend(partial_tx_ids, tx_ids_by_address[a])
        /\ unread' = unread \ {a}
    /\ UNCHANGED <<pc, addresses, attempt, start_finalized_tip, end_finalized_tip,
                   finalized_utxos, returned, outcome, history, query_kind, chain,
                   merged_utxos, partial_balance>>
    /\ UNCHANGED writer_vars
    /\ UNCHANGED merge_vars

\* The second tip observation certifies the lookup that has read every address.
SecondObservationCertifies ==
    /\ unread = {}
    /\ RangeIsConsistent(FinalizedTipRange(start_finalized_tip, finalized_tip))

SecondObservationRejects ==
    /\ unread = {}
    /\ ~RangeIsConsistent(FinalizedTipRange(start_finalized_tip, finalized_tip))

TxIdsReadSucceeds ==
    /\ pc = "tx_lookup"
    /\ SecondObservationCertifies
    /\ end_finalized_tip' = finalized_tip
    /\ pc' = "tx_done"
    /\ UNCHANGED <<addresses, attempt, start_finalized_tip, finalized_utxos, unread,
                   returned, outcome, history>>
    /\ UNCHANGED query_vars
    /\ UNCHANGED writer_vars
    /\ UNCHANGED merge_vars

TxIdsReadRetries ==
    /\ pc = "tx_lookup"
    /\ SecondObservationRejects
    /\ attempt < FINALIZED_STATE_QUERY_RETRIES
    /\ end_finalized_tip' = finalized_tip
    /\ attempt' = attempt + 1
    /\ pc' = "tx_start"
    /\ UNCHANGED <<addresses, start_finalized_tip, finalized_utxos, unread, returned,
                   outcome, history>>
    /\ UNCHANGED query_vars
    /\ UNCHANGED writer_vars
    /\ UNCHANGED merge_vars

TxIdsReadRetriesExhausted ==
    /\ pc = "tx_lookup"
    /\ SecondObservationRejects
    /\ attempt >= FINALIZED_STATE_QUERY_RETRIES
    /\ end_finalized_tip' = finalized_tip
    /\ outcome' = [kind |-> "retry_exhausted"]
    /\ pc' = "error"
    /\ UNCHANGED <<addresses, attempt, start_finalized_tip, finalized_utxos, unread,
                   returned, history>>
    /\ UNCHANGED query_vars
    /\ UNCHANGED writer_vars
    /\ UNCHANGED merge_vars

\* The merged transaction IDs of the transactions `utxos` refers to.
TxIdsForUtxos(utxos, finalized_ids, chain_ids) ==
    Restrict(ApplyTxIdChanges(finalized_ids, chain_ids),
             {TransactionLocationOf(loc) : loc \in DOMAIN utxos})

\* AddressUtxos::new(network, utxos, tx_ids), returned to the caller; the
\* locals of the transaction ID read are dropped.
BuildAddressUtxos ==
    /\ pc = "tx_done"
    /\ outcome' = [kind |-> "ok",
                   value |-> AddressUtxosNew("Mainnet", merged_utxos,
                                 TxIdsForUtxos(merged_utxos, partial_tx_ids, ChainTxIds))]
    /\ pc' = "built"
    /\ attempt' = 0
    /\ start_finalized_tip' = None
    /\ end_finalized_tip' = None
    /\ partial_tx_ids' = EmptyMap
    /\ UNCHANGED <<addresses, finalized_utxos, unread, returned, history, query_kind,
                   chain, merged_utxos, partial_balance>>
    /\ UNCHANGED writer_vars
    /\ UNCHANGED merge_vars

(***************************************************************************)
(* The balance query: the race-safe finalized balance read and the balance *)
(* merge.                                                                  *)
(***************************************************************************)
StartBalanceQuery ==
    /\ pc = "idle"
    /\ query_kind = "none"
    /\ \E queried \in (SUBSET Addresses) \ {{}} : addresses' = queried
    /\ chain' \in BalanceChainSnapshots
    /\ query_kind' = "balance"
    /\ attempt' = 1
    /\ pc' = "balance_start"
    /\ UNCHANGED <<finalized_read_vars, outcome, merged_utxos, partial_tx_ids,
                   partial_balance>>
    /\ UNCHANGED writer_vars
    /\ UNCHANGED merge_vars

BalanceReadStartTip ==
    /\ pc = "balance_start"
    /\ start_finalized_tip' = finalized_tip
    /\ partial_balance' = 0
    /\ unread' = addresses
    /\ pc' = "balance_lookup"
    /\ UNCHANGED <<addresses, attempt, end_finalized_tip, finalized_utxos, returned,
                   outcome, history, query_kind, chain, merged_utxos, partial_tx_ids>>
    /\ UNCHANGED writer_vars
    /\ UNCHANGED merge_vars

\* db.partial_finalized_address_balance(addresses): one balance read per address.
BalanceLookupAddress ==
    /\ pc = "balance_lookup"
    /\ \E a \in unread :
        /\ partial_balance' = partial_balance + balance_by_address[a]
        /\ unread' = unread \ {a}
    /\ UNCHANGED <<pc, addresses, attempt, start_finalized_tip, end_finalized_tip,
                   finalized_utxos, returned, outcome, history, query_kind, chain,
                   merged_utxos, partial_tx_ids>>
    /\ UNCHANGED writer_vars
    /\ UNCHANGED merge_vars

BalanceReadSucceeds ==
    /\ pc = "balance_lookup"
    /\ SecondObservationCertifies
    /\ end_finalized_tip' = finalized_tip
    /\ pc' = "balance_done"
    /\ UNCHANGED <<addresses, attempt, start_finalized_tip, finalized_utxos, unread,
                   returned, outcome, history>>
    /\ UNCHANGED query_vars
    /\ UNCHANGED writer_vars
    /\ UNCHANGED merge_vars

BalanceReadRetries ==
    /\ pc = "balance_lookup"
    /\ SecondObservationRejects
    /\ attempt < FINALIZED_STATE_QUERY_RETRIES
    /\ end_finalized_tip' = finalized_tip
    /\ attempt' = attempt + 1
    /\ pc' = "balance_start"
    /\ UNCHANGED <<addresses, start_finalized_tip, finalized_utxos, unread, returned,
                   outcome, history>>
    /\ UNCHANGED query_vars
    /\ UNCHANGED writer_vars
    /\ UNCHANGED merge_vars

BalanceReadRetriesExhausted ==
    /\ pc = "balance_lookup"
    /\ SecondObservationRejects
    /\ attempt >= FINALIZED_STATE_QUERY_RETRIES
    /\ end_finalized_tip' = finalized_tip
    /\ outcome' = [kind |-> "retry_exhausted"]
    /\ pc' = "error"
    /\ UNCHANGED <<addresses, attempt, start_finalized_tip, finalized_utxos, unread,
                   returned, history>>
    /\ UNCHANGED query_vars
    /\ UNCHANGED writer_vars
    /\ UNCHANGED merge_vars

\* The balance with the chain's balance change applied, if there is a chain.
MergedBalance(balance) ==
    IF chain.some
    THEN ApplyBalanceChange(balance, chain.value.balance_change)
    ELSE Ok(balance)

\* apply_balance_change(balance, chain_balance_change), its error returned
MergeBalance ==
    /\ pc = "balance_done"
    /\ outcome' = IF MergedBalance(partial_balance).ok
                  THEN [kind |-> "ok", value |-> MergedBalance(partial_balance).value]
                  ELSE [kind |-> MergedBalance(partial_balance).error]
    /\ pc' = IF MergedBalance(partial_balance).ok THEN "answered" ELSE "error"
    /\ UNCHANGED <<addresses, attempt, finalized_read_vars>>
    /\ UNCHANGED query_vars
    /\ UNCHANGED writer_vars
    /\ UNCHANGED merge_vars

\* The caller drops a query before it has returned.
QueryAbandoned ==
    /\ pc \notin {"idle", "built", "answered", "error", "abandoned"}
    /\ pc' = "abandoned"
    /\ addresses' = {}
    /\ attempt' = 0
    /\ start_finalized_tip' = None
    /\ end_finalized_tip' = None
    /\ finalized_utxos' = EmptyMap
    /\ unread' = {}
    /\ returned' = NoReturn
    /\ outcome' = NoReturn
    /\ history' = <<>>
    /\ merged_utxos' = EmptyMap
    /\ partial_tx_ids' = EmptyMap
    /\ partial_balance' = 0
    /\ UNCHANGED <<query_kind, chain>>
    /\ UNCHANGED writer_vars
    /\ UNCHANGED merge_vars

QueryNext ==
    \/ WriterBegin
    \/ WriterPersist
    \/ WriterAdvanceTip
    \/ StartUtxosQuery
    \/ ReadStartTip
    \/ LookupAddress
    \/ ReadEndTip
    \/ QuerySucceeds
    \/ QueryRetries
    \/ QueryRetriesExhausted
    \/ MergeUtxos
    \/ TxIdsReadStartTip
    \/ TxIdsLookupAddress
    \/ TxIdsReadSucceeds
    \/ TxIdsReadRetries
    \/ TxIdsReadRetriesExhausted
    \/ BuildAddressUtxos
    \/ StartBalanceQuery
    \/ BalanceReadStartTip
    \/ BalanceLookupAddress
    \/ BalanceReadSucceeds
    \/ BalanceReadRetries
    \/ BalanceReadRetriesExhausted
    \/ MergeBalance
    \/ QueryAbandoned

QuerySpec == Init /\ [][QueryNext]_vars

(***************************************************************************)
(* Properties of the race-safe finalized read.                             *)
(***************************************************************************)
\* The two tip observations of attempt `i` are equal.
AttemptIsStable(i) == history[i].start = history[i].end

\* Attempt `k` is the first whose two tip observations are equal.
FirstStableAttempt(k) ==
    /\ AttemptIsStable(k)
    /\ \A j \in 1..(k - 1) : ~AttemptIsStable(j)

\* C1: a lookup result is handed to the caller only when the tip height
\* observed before the lookup equals the one observed after it, and every
\* returned non-empty height range is a single point.
C1_ReturnedOnlyWhenTipUnchanged ==
    pc = "done" =>
        /\ start_finalized_tip = end_finalized_tip
        /\ outcome.range.some => outcome.range.value.start = outcome.range.value.end

C3_ExhaustedAfterBoundWhenNeverStable ==
    /\ Len(history) <= FINALIZED_STATE_QUERY_RETRIES
    /\ (pc \in {"done", "error"} /\ \A i \in 1..Len(history) : ~AttemptIsStable(i)) =>
          /\ pc = "error"
          /\ outcome.kind = "retry_exhausted"
          /\ Len(history) = FINALIZED_STATE_QUERY_RETRIES

\* C4: when attempt k is the first whose tip observations are equal, the
\* read succeeds on attempt k with the lookup result of attempt k, and no
\* attempt follows it.
C4_SucceedsOnFirstStableAttempt ==
    \A k \in 1..Len(history) :
        FirstStableAttempt(k) =>
            /\ k = Len(history)
            /\ k <= FINALIZED_STATE_QUERY_RETRIES
            /\ pc \in {"returned", "done", "idle"}
            /\ pc # "returned" =>
                  /\ outcome.kind = "ok"
                  /\ outcome.utxos = history[k].utxos

\* C4 witness: the read succeeded on its second attempt, whose lookup
\* result differs from the discarded one of the first attempt.
C4_Witness ==
    /\ pc = "done"
    /\ Len(history) = 2
    /\ FirstStableAttempt(2)
    /\ history[1].utxos # history[2].utxos
    /\ outcome.utxos = history[2].utxos

(***************************************************************************)
(* Properties of the merges.                                               *)
(***************************************************************************)
UtxoCallReturned == call.fn = "apply_utxo_changes" /\ result.kind = "return"

TxIdCallReturned == call.fn = "apply_tx_id_changes" /\ result.kind = "return"

BalanceCallReturned == call.fn = "apply_balance_change" /\ result.kind = "return"

\* C5: apply_utxo_changes(F, C, S) is F overlaid by C, minus S: its keys
\* are (keys(F) \cup keys(C)) \ S, and a key maps to C's output when it is
\* in C, to F's output otherwise.
C5_UtxoMergeIsOverlayMinusSpent ==
    UtxoCallReturned =>
        LET F == call.finalized_utxos
            C == call.created_chain_utxos
            S == call.spent_chain_utxos
        IN  /\ DOMAIN result.value = ((DOMAIN F) \cup (DOMAIN C)) \ S
            /\ \A k \in DOMAIN result.value :
                  result.value[k] = IF k \in DOMAIN C THEN C[k] ELSE F[k]

\* C5 witness: the merge returned for inputs where F and C hold different
\* outputs under one unspent key, and another key of F is spent.
C5_Witness ==
    /\ UtxoCallReturned
    /\ \E k \in (DOMAIN call.finalized_utxos) \cap (DOMAIN call.created_chain_utxos) :
          /\ call.finalized_utxos[k] # call.created_chain_utxos[k]
          /\ k \notin call.spent_chain_utxos
          /\ result.value[k] = call.created_chain_utxos[k]
    /\ \E k \in (DOMAIN call.finalized_utxos) \cap call.spent_chain_utxos :
          k \notin DOMAIN result.value

\* C6: no output location spent in the non-finalized chain is in the merged
\* UTXO set, whether it was created in the non-finalized chain or finalized
\* earlier.
C6_SpentOutputsAreExcluded ==
    UtxoCallReturned =>
        \A k \in call.spent_chain_utxos : k \notin DOMAIN result.value

\* C6 witness: the merge returned for inputs where one spent key was created
\* in the non-finalized chain only and another was finalized only.
C6_Witness ==
    /\ UtxoCallReturned
    /\ \E k \in call.spent_chain_utxos :
          /\ k \in DOMAIN call.created_chain_utxos
          /\ k \notin DOMAIN call.finalized_utxos
    /\ \E k \in call.spent_chain_utxos :
          /\ k \in DOMAIN call.finalized_utxos
          /\ k \notin DOMAIN call.created_chain_utxos
    /\ DOMAIN result.value # {}

\* C7: when 0 <= a + d <= MAX_MONEY, apply_balance_change(a, d) succeeds
\* with exactly a + d, a non-negative amount.
C7_BalanceMergeIsExactSum ==
    BalanceCallReturned =>
        LET sum == call.finalized_balance + call.chain_balance_change
        IN  (0 <= sum /\ sum <= MaxMoney) =>
                /\ result.value.ok
                /\ result.value.value = sum
                /\ result.value.value >= 0

\* C7 witness: a positive balance merged with a negative change that leaves
\* a positive sum.
C7_Witness ==
    /\ BalanceCallReturned
    /\ call.finalized_balance > 0
    /\ call.chain_balance_change < 0
    /\ call.finalized_balance + call.chain_balance_change > 0
    /\ result.value.ok

\* C8: when a + d is negative or above MAX_MONEY, apply_balance_change(a, d)
\* returns an amount-range error, and no balance.
C8_BalanceMergeRangeError ==
    BalanceCallReturned =>
        LET sum == call.finalized_balance + call.chain_balance_change
        IN  (sum < 0 \/ sum > MaxMoney) =>
                /\ ~result.value.ok
                /\ result.value.error = "amount_range"

\* C8 witness: the merge returned an error for a negative sum.
C8_Witness ==
    /\ BalanceCallReturned
    /\ call.finalized_balance > 0
    /\ call.finalized_balance + call.chain_balance_change < 0
    /\ ~result.value.ok

\* C9: apply_tx_id_changes(A, B) has the keys keys(A) \cup keys(B), each
\* once, with B's value for a key of B and A's value otherwise, also when
\* A and B have the same keys; the value returned is a map, never an error.
C9_TxIdMergeIsUnionChainWins ==
    TxIdCallReturned =>
        LET A == call.finalized_tx_ids
            B == call.chain_tx_ids
            entries == IntoIter(result.value)
        IN  /\ result.value \in Maps(MergeTransactionLocations, MergeTransactionHashes)
            /\ DOMAIN result.value = (DOMAIN A) \cup (DOMAIN B)
            /\ \A k \in DOMAIN result.value :
                  /\ result.value[k] = IF k \in DOMAIN B THEN B[k] ELSE A[k]
                  /\ Cardinality({i \in 1..Len(entries) : entries[i][1] = k}) = 1

\* C9 witness: the merge returned for two maps with the same keys that
\* disagree on one of them.
C9_Witness ==
    /\ TxIdCallReturned
    /\ DOMAIN call.finalized_tx_ids = DOMAIN call.chain_tx_ids
    /\ \E k \in DOMAIN call.chain_tx_ids :
          /\ call.finalized_tx_ids[k] # call.chain_tx_ids[k]
          /\ result.value[k] = call.chain_tx_ids[k]

\* C10: when F and C hold the same output under a key, apply_utxo_changes
\* returns what it returns with that key removed from F, and what it returns
\* with that key removed from C.
C10_UtxoMergeToleratesOverlap ==
    UtxoCallReturned =>
        LET F == call.finalized_utxos
            C == call.created_chain_utxos
            S == call.spent_chain_utxos
        IN  \A k \in (DOMAIN F) \cap (DOMAIN C) :
                F[k] = C[k] =>
                    /\ result.value = ApplyUtxoChanges(Remove(F, k), C, S)
                    /\ result.value = ApplyUtxoChanges(F, Remove(C, k), S)

\* C10 witness: the merge returned for inputs that share an identical
\* unspent entry, which is in the result.
C10_Witness ==
    /\ UtxoCallReturned
    /\ \E k \in (DOMAIN call.finalized_utxos) \cap (DOMAIN call.created_chain_utxos) :
          /\ call.finalized_utxos[k] = call.created_chain_utxos[k]
          /\ k \notin call.spent_chain_utxos
          /\ k \in DOMAIN result.value


(***************************************************************************)
(* Properties of the value finalized_address_utxos returns.                *)
(***************************************************************************)
\* The observations of the attempt that produced `returned`.
LastAttempt == history[Len(history)]

\* C18: every height range finalized_address_utxos returns has
\* start <= end and is made of the two tip observations, and the returned
\* range is None only if the store was empty at one of the two
\* observations, which then includes the first one.
C18_ReturnedRangeIsOrdered ==
    returned.kind = "return" =>
        /\ returned.range.some =>
              /\ returned.range.value.start <= returned.range.value.end
              /\ LastAttempt.start = Some(returned.range.value.start)
              /\ LastAttempt.end = Some(returned.range.value.end)
        /\ ~returned.range.some =>
              /\ ~LastAttempt.start.some \/ ~LastAttempt.end.some
              /\ ~LastAttempt.start.some

\* C18 witness: a returned range whose start is below its end.
C18_Witness ==
    /\ returned.kind = "return"
    /\ pc = "returned"
    /\ returned.range.some
    /\ returned.range.value.start < returned.range.value.end


(***************************************************************************)
(* Properties of the address conversions.                                  *)
(***************************************************************************)
\* The receiver makes try_from_unified fail.
IsRejectedReceiver(receiver) ==
    \/ receiver.kind \in {"Orchard", "Sapling"} /\ receiver.data = "invalid"
    \/ receiver.kind = "Unknown"

\* The error try_from_unified gives for a rejected receiver.
RejectionOf(receiver) ==
    CASE receiver.kind = "Orchard" -> "Unified Address contains an invalid Orchard receiver."
      [] receiver.kind = "Sapling" -> "Unified Address contains an invalid Sapling receiver"
      [] OTHER -> "Unsupported receiver in a Unified Address."

\* C16: try_from_unified returns an Address exactly when no receiver is an
\* Orchard or Sapling receiver that fails decoding or an Unknown receiver;
\* otherwise it returns the error of the first such receiver in item order
\* and no Address.  The other receivers do not change the outcome.
C16_UnifiedRejectedOnFirstBadReceiver ==
    (call.fn = "try_from_unified" /\ result.kind = "return") =>
        LET items == call.unified_address
            rejected == {i \in 1..Len(items) : IsRejectedReceiver(items[i])}
            kept == SelectSeq(items, LAMBDA r : r.kind \in {"Orchard", "Sapling", "Unknown"})
        IN  /\ result.value.ok <=> rejected = {}
            /\ result.value.ok =>
                  /\ result.value.value.variant = "Unified"
                  /\ result.value.value.unified_address = items
            /\ ~result.value.ok =>
                  \E i \in rejected :
                      /\ \A j \in rejected : i <= j
                      /\ result.value.error = RejectionOf(items[i])
            /\ result.value.ok = TryFromUnified(call.network, kept).ok

\* C16 witness: a unified address rejected for the first of its two
\* rejected receivers, which follows a skipped one.
C16_Witness ==
    /\ call.fn = "try_from_unified"
    /\ result.kind = "return"
    /\ ~result.value.ok
    /\ Len(call.unified_address) = 3
    /\ call.unified_address[1].kind = "P2pkh"
    /\ call.unified_address[2] = [kind |-> "Sapling", data |-> "invalid"]
    /\ call.unified_address[3].kind = "Unknown"
    /\ result.value.error = "Unified Address contains an invalid Sapling receiver"

\* C17: is_script_hash is false for every Address a conversion produces,
\* of the Sapling and of the Unified variant.
C17_IsScriptHashIsFalse ==
    result.kind = "is_script_hash" =>
        /\ result.address.variant \in {"Sapling", "Unified"}
        /\ result.value = FALSE

\* C17 witness: is_script_hash returned for a Unified address.
C17_Witness ==
    /\ result.kind = "is_script_hash"
    /\ result.address.variant = "Unified"
    /\ result.address.orchard.some
    /\ result.value = FALSE


(***************************************************************************)
(* Properties of AddressUtxos.                                             *)
(***************************************************************************)
\* (height, transaction index, output index) of `a` is below that of `b`.
ChainOrderBefore(a, b) ==
    \/ a[1] < b[1]
    \/ a[1] = b[1] /\ a[2] < b[2]
    \/ a[1] = b[1] /\ a[2] = b[2] /\ a[3] < b[3]

\* C11: utxos() yields one tuple per entry of the UTXO map, in strictly
\* ascending order of (height, transaction index, output index), in
\* whatever order the entries were inserted.
C11_UtxosInChainOrder ==
    (result.kind = "utxos" /\ ~result.value.panicked) =>
        LET items == result.value.items
            utxos == result.self.utxos
        IN  /\ Len(items) = Cardinality(DOMAIN utxos)
            /\ \A l \in DOMAIN utxos :
                  \E i \in 1..Len(items) :
                      /\ items[i][3] = l
                      /\ items[i][4] = utxos[l]
                      /\ items[i][2] = result.self.tx_ids[<<l[1], l[2]>>]
            /\ \A i \in 1..Len(items) : \A j \in 1..Len(items) :
                  i < j => ChainOrderBefore(items[i][3], items[j][3])

\* C11 witness: utxos() returned three tuples for entries inserted in
\* descending order.
C11_Witness ==
    /\ result.kind = "utxos"
    /\ ~result.value.panicked
    /\ Len(result.value.items) = 3
    /\ Len(call.insertions) = 3
    /\ call.insertions[1][1] = <<2, 0, 0>>
    /\ call.insertions[2][1] = <<1, 1, 0>>
    /\ call.insertions[3][1] = <<1, 0, 1>>
    /\ result.value.items[1][3] = <<1, 0, 1>>


(***************************************************************************)
(* Properties of the UTXO query and the balance query.                     *)
(***************************************************************************)
\* The UTXO query has returned an AddressUtxos value.
UtxosQueryBuilt == pc = "built" /\ outcome.kind = "ok"

C13_EmptyStoreResultIsNonFinalizedOnly ==
    /\ pc = "returned" =>
          (returned.range.some <=> (start_finalized_tip.some /\ end_finalized_tip.some))
    /\ (UtxosQueryBuilt /\ ~returned.range.some) =>
          outcome.value.utxos =
              ApplyUtxoChanges(EmptyMap, ChainCreatedUtxos, ChainSpentUtxos)

\* The exact sum the balance query has to answer with.
BalanceQuerySum ==
    partial_balance + (IF chain.some THEN chain.value.balance_change ELSE 0)

\* C14: a balance query whose exact sum is outside 0..MaxMoney returns the
\* balance merge's amount-range error, and only such a query does: a query
\* is retried only after its two tip observations differed, retry-exhausted
\* is returned only after the last attempt's observations differed, and a
\* success value is the exact sum within the range.
C14_AmountRangeErrorIsReturned ==
    query_kind = "balance" =>
        /\ (pc = "balance_start" /\ attempt > 1) =>
              (start_finalized_tip # end_finalized_tip)
        /\ (pc = "error" /\ outcome.kind = "retry_exhausted") =>
              /\ attempt = FINALIZED_STATE_QUERY_RETRIES
              /\ start_finalized_tip # end_finalized_tip
        /\ (pc = "error" /\ outcome.kind # "retry_exhausted") =>
              /\ outcome.kind = "amount_range"
              /\ BalanceQuerySum \notin 0..MaxMoney
        /\ pc = "answered" =>
              /\ outcome = [kind |-> "ok", value |-> BalanceQuerySum]
              /\ BalanceQuerySum \in 0..MaxMoney
        /\ pc \in {"answered", "error"}
              => (outcome.kind = "amount_range" <=>
                    (outcome.kind # "retry_exhausted" /\ BalanceQuerySum \notin 0..MaxMoney))

\* An amount-range error returned by a query whose first attempt was retried
\* and whose finalized balance is positive.
C14_Witness ==
    /\ query_kind = "balance"
    /\ pc = "error"
    /\ outcome.kind = "amount_range"
    /\ attempt > 1
    /\ partial_balance > 0

\* A step of a query that has started: it changes the query's own state.
QueryStep ==
    /\ pc # "idle"
    /\ <<reader_vars, merged_utxos, partial_tx_ids, partial_balance>>' #
           <<reader_vars, merged_utxos, partial_tx_ids, partial_balance>>

\* C15: every step of a started query (of its finalized reads, of its
\* merges, and of its being abandoned at any point) leaves the finalized
\* tip height, the finalized address indexes, the writer's progress and
\* the non-finalized chain snapshot unchanged.
C15_QueryChangesNoSharedState ==
    [][QueryStep => UNCHANGED <<writer_vars, chain>>]_vars

\* A query abandoned while the writer is committing a block over address
\* indexes that hold finalized outputs, with its chain snapshot as given.
C15_Witness ==
    /\ pc = "abandoned"
    /\ chain.some
    /\ committing.some
    /\ persisted # {}
    /\ \E a \in Addresses : utxos_by_address[a] # EmptyMap
====
